---------------------------- MODULE Spec2Model ----------------------------
(***************************************************************************)
(* Matilda: the time system of a match (src/src/time_ctrl.c), the engine   *)
(* flow control (evaluate_position and the maintenance functions, held in  *)
(* src/src/README from line 154 on), the textual time system format and   *)
(* the main loop of ob_learn (src/src/ob_learn/main.c).                    *)
(*                                                                         *)
(* All times are in milliseconds.  The fields of a time_system are u32.    *)
(* TLC's integers are 32 bit signed, so a u32 is held as the signed        *)
(* integer with the same 32 bits: 0 .. 2^31-1 are themselves and           *)
(* 0xFFFFFFFF, the result of decrementing 0, is -1.  Addition and          *)
(* subtraction wrap the same way in both readings; the unsigned order is   *)
(* ULt.                                                                    *)
(***************************************************************************)
EXTENDS Integers, Sequences, FiniteSets, TLC

(* Bounds of the model. *)
MaxMain == 2
MaxByo == 3
MaxStones == 2
MaxPeriods == 3
MaxElapsed == 4
MaxCache == 2
MaxKomi == 1
MaxUnique == 3
MaxPopularity == 2

\* UCT_MIN_WINRATE, in percent.  inc/config.h, which sets it, is not among the
\* sources; 10 stands for it, and only the order of a win rate and the
\* threshold matters.
UCT_MIN_WINRATE == 10

VARIABLES
    ts,                       \* the time_system structure
    pc,                       \* "idle", or "loop" inside advance_clock
    milliseconds,             \* advance_clock: elapsed time not yet consumed
    consumed_byo_yomi_stone,  \* advance_clock: local flag
    preset,                   \* which function last set the whole structure
    call,                     \* the running or last call: operation, the
                              \* structure and argument it started with, and
                              \* what its loop did so far
    total,                    \* elapsed time reported since the last preset or
                              \* reset (kept up to MaxMain + 1)
    use_opening_book,         \* engine: static flag
    tt_requires_maintenance,  \* engine: set after MCTS start/resume call
    komi_offset,              \* only reset between matches
    tt,                       \* the states held by the transpositions table
    searched,                 \* whether evaluate_position ran MCTS since the
                              \* last maintenance call
    eng,                      \* the last engine operation and what it did
    src,                      \* text: the argument of str_to_time_system
    parse,                    \* text: what str_to_time_system returned
    out,                      \* text: what time_system_to_str returned, and
                              \* what str_to_time_system had returned then
    learn                     \* ob_learn: the main loop of the program, its
                              \* transpositions table and what it did so far

clock_vars == <<ts, pc, milliseconds, consumed_byo_yomi_stone, preset, call,
                total>>

engine_vars == <<use_opening_book, tt_requires_maintenance, komi_offset, tt,
                 searched, eng>>

text_vars == <<src, parse, out>>

learn_vars == <<learn>>

vars == <<clock_vars, engine_vars, text_vars, learn_vars>>

-----------------------------------------------------------------------------
(* u32 arithmetic on the signed representation. *)

ULt(a, b) ==
    IF (a >= 0) = (b >= 0) THEN a < b ELSE a >= 0

ULe(a, b) == a = b \/ ULt(a, b)

\* MIN(a, b) of the C macro on two u32
MIN(a, b) == IF ULt(a, b) THEN a ELSE b

IterCap == MaxPeriods + MaxElapsed + 3

Sat(n) == IF n > IterCap THEN IterCap ELSE n

-----------------------------------------------------------------------------
(* The presets. *)

TimeSystem(can_timeout, main_time, byo_yomi_time, byo_yomi_stones, byo_yomi_periods) ==
    [ can_timeout |-> can_timeout,
      timed_out |-> FALSE,
      main_time |-> main_time,
      main_time_remaining |-> main_time,
      byo_yomi_time |-> byo_yomi_time,
      byo_yomi_time_remaining |-> byo_yomi_time,
      byo_yomi_stones |-> byo_yomi_stones,
      byo_yomi_stones_remaining |-> byo_yomi_stones,
      byo_yomi_periods |-> byo_yomi_periods,
      byo_yomi_periods_remaining |-> byo_yomi_periods ]

set_time_system(main_time, byo_yomi_time, byo_yomi_stones, byo_yomi_periods) ==
    TimeSystem(TRUE, main_time, byo_yomi_time, byo_yomi_stones,
               byo_yomi_periods)

set_sudden_death(main_time) ==
    TimeSystem(TRUE, main_time, 0, 0, 0)

\* mutant: the time per turn clock can time out
set_time_per_turn_CanTimeout(time_per_turn) ==
    TimeSystem(TRUE, 0, time_per_turn, 1, 1)

set_time_per_turn(time_per_turn) ==
    TimeSystem(FALSE, 0, time_per_turn, 1, 1)

\* mutant: timed_out is left as it was
reset_clock_KeepsTimedOut(t) ==
    [t EXCEPT !.main_time_remaining = t.main_time,
              !.byo_yomi_time_remaining = t.byo_yomi_time,
              !.byo_yomi_stones_remaining = t.byo_yomi_stones,
              !.byo_yomi_periods_remaining = t.byo_yomi_periods]

\* mutant: the number of stones left is not restored
reset_clock_KeepsStones(t) ==
    [t EXCEPT !.timed_out = FALSE,
              !.main_time_remaining = t.main_time,
              !.byo_yomi_time_remaining = t.byo_yomi_time,
              !.byo_yomi_periods_remaining = t.byo_yomi_periods]

reset_clock(t) ==
    [t EXCEPT !.timed_out = FALSE,
              !.main_time_remaining = t.main_time,
              !.byo_yomi_time_remaining = t.byo_yomi_time,
              !.byo_yomi_stones_remaining = t.byo_yomi_stones,
              !.byo_yomi_periods_remaining = t.byo_yomi_periods]

NoCall(op) ==
    [op |-> op, pre |-> <<>>, arg |-> 0, iters |-> 0, decs |-> 0,
     rollovers |-> 0]

\* a call of a preset: its arguments, and of the structure it found whether
\* it could time out and had timed out
PresetCall(op, arg, t) ==
    [NoCall(op) EXCEPT !.arg = arg,
                       !.pre = [can_timeout |-> t.can_timeout,
                                timed_out |-> t.timed_out]]

-----------------------------------------------------------------------------
(* calc_time_to_play.  Its doubles are held as exact fractions [n, d] with *)
(* d > 0; the values of the model are small enough for the doubles of the  *)
(* code to tell them apart the same way.  BOARD_SIZ, TIME_ALLOT_FACTOR,    *)
(* LATENCY_COMPENSATION and DETECT_NETWORK_LATENCY are set in headers that *)
(* are not among the sources: a 19x19 board, a factor of 5/2 and 100 ms    *)
(* stand for them, and both values of DETECT_NETWORK_LATENCY are taken.    *)

BOARD_SIZ == 19

TIME_ALLOT_FACTOR == [n |-> 5, d |-> 2]

LATENCY_COMPENSATION == 100

QLt(a, b) == a.n * b.d < b.n * a.d

QEq(a, b) == a.n * b.d = b.n * a.d

QLe(a, b) == QLt(a, b) \/ QEq(a, b)

\* MAX(a, b) of the C macro on two doubles
MAX(a, b) == IF QLt(b, a) THEN a ELSE b

\* lines 33-35
TurnsLeft(turns_played) ==
    LET e1 == [n |-> (BOARD_SIZ * BOARD_SIZ) * 2 - 3 * turns_played, d |-> 3]
        e2 == [n |-> BOARD_SIZ, d |-> 4]
    IN  MAX(e1, e2)

\* mutant: the time of the byo-yomi period is not looked at
TimeToPlay_MainTimeOnly(t, turns_left) ==
    [n |-> t.main_time_remaining * turns_left.d, d |-> turns_left.n]

\* lines 36-48: t_t before the factor
TimeToPlay(t, turns_left) ==
    LET mtt == [n |-> t.main_time_remaining * turns_left.d,
                d |-> turns_left.n]
    IN  IF ULt(0, t.byo_yomi_stones_remaining)
        THEN LET byt == [n |-> t.byo_yomi_time_remaining,
                         d |-> t.byo_yomi_stones_remaining]
             IN  MAX(byt, mtt)
        ELSE mtt

\* mutant: the delay is subtracted whatever the time
LatencyCorrection_Always(t_t, net) ==
    LET delay == IF net.detect THEN net.delay ELSE LATENCY_COMPENSATION
    IN  [subtracted |-> TRUE,
         t_t |-> [n |-> t_t.n - delay * t_t.d, d |-> t_t.d]]

\* lines 58-64.  net.detect is DETECT_NETWORK_LATENCY, net.set is
\* network_round_trip_set and net.delay is network_roundtrip_delay
LatencyCorrection(t_t, net) ==
    LET delay == IF net.detect THEN net.delay ELSE LATENCY_COMPENSATION
        applies == IF net.detect THEN net.set ELSE TRUE
    IN  IF applies /\ QLt([n |-> delay, d |-> 1], t_t)
        THEN [subtracted |-> TRUE,
              t_t |-> [n |-> t_t.n - delay * t_t.d, d |-> t_t.d]]
        ELSE [subtracted |-> FALSE, t_t |-> t_t]

\* lines 26-67.  The returned u32 is the double without its fraction
calc_time_to_play(t, turns_played, net) ==
    LET turns_left == TurnsLeft(turns_played)
        t_t == TimeToPlay(t, turns_left)
        allotted == [n |-> t_t.n * TIME_ALLOT_FACTOR.n,
                     d |-> t_t.d * TIME_ALLOT_FACTOR.d]
        corrected == LatencyCorrection(allotted, net)
    IN  [ts |-> t,
         turns_left |-> turns_left,
         t_t |-> t_t,
         allotted |-> allotted,
         subtracted |-> corrected.subtracted,
         corrected |-> corrected.t_t,
         ret |-> corrected.t_t.n \div corrected.t_t.d]

-----------------------------------------------------------------------------
(* advance_clock.  The call and every iteration of its loop are steps of   *)
(* their own, so the states inside the loop are states of the model.       *)

\* mutant: the call goes on for a clock that timed out
CanAdvance_IgnoresTimedOut(t) == t.can_timeout

\* mutant: the call goes on for a clock that cannot time out
CanAdvance_IgnoresCanTimeout(t) == ~t.timed_out

\* line 125: the call does nothing unless this holds
CanAdvance(t) == t.can_timeout /\ ~t.timed_out

\* mutant: the elapsed time beyond the main time is dropped
AbsolutePeriod_DropsRemainder(t, ms) ==
    LET main_time_elapsed == MIN(t.main_time_remaining, ms)
    IN  [ts |-> [t EXCEPT !.main_time_remaining = @ - main_time_elapsed],
         ms |-> 0]

\* mutant: the call that ends the main time pays a stone of the first period
AbsolutePeriod_PaysStone(t, ms) ==
    LET main_time_elapsed == MIN(t.main_time_remaining, ms)
    IN  [ts |-> [t EXCEPT !.main_time_remaining = @ - main_time_elapsed,
                          !.byo_yomi_stones_remaining =
                              IF t.main_time_remaining = main_time_elapsed
                              THEN @ - 1 ELSE @],
         ms |-> ms - main_time_elapsed]

\* lines 187-189: the absolute period
AbsolutePeriod(t, ms) ==
    LET main_time_elapsed == MIN(t.main_time_remaining, ms)
    IN  [ts |-> [t EXCEPT !.main_time_remaining = @ - main_time_elapsed],
         ms |-> ms - main_time_elapsed]

\* mutant: a stone is consumed in every iteration
ConsumeStone_EveryIteration(t, consumed) ==
    [t EXCEPT !.byo_yomi_stones_remaining = @ - 1]

\* lines 142-146: the stone of this call
ConsumeStone(t, consumed) ==
    IF consumed = FALSE
    THEN [t EXCEPT !.byo_yomi_stones_remaining = @ - 1]
    ELSE t

\* lines 164-165 and 177-178: a new period, or the same period over again
NewPeriod(t) ==
    [t EXCEPT !.byo_yomi_stones_remaining = t.byo_yomi_stones,
              !.byo_yomi_time_remaining = t.byo_yomi_time]

\* mutant: the period is not set anew when the stones are played in time
PeriodEnd_NoStoneReset(t) ==
    IF t.byo_yomi_time_remaining = 0
    THEN LET u == [t EXCEPT !.byo_yomi_periods_remaining = @ - 1]
         IN  IF u.byo_yomi_periods_remaining = 0
             THEN [ts |-> [u EXCEPT !.timed_out = TRUE], returned |-> TRUE,
                   rollover |-> FALSE]
             ELSE [ts |-> NewPeriod(u), returned |-> FALSE, rollover |-> TRUE]
    ELSE [ts |-> t, returned |-> FALSE, rollover |-> FALSE]

\* mutant: the new period starts with the time of the old one
PeriodEnd_NoNewTime(t) ==
    IF t.byo_yomi_time_remaining = 0
    THEN LET u == [t EXCEPT !.byo_yomi_periods_remaining = @ - 1]
         IN  IF u.byo_yomi_periods_remaining = 0
             THEN [ts |-> [u EXCEPT !.timed_out = TRUE], returned |-> TRUE,
                   rollover |-> FALSE]
             ELSE [ts |-> [u EXCEPT !.byo_yomi_stones_remaining =
                                        u.byo_yomi_stones],
                   returned |-> FALSE, rollover |-> TRUE]
    ELSE IF t.byo_yomi_stones_remaining = 0
         THEN [ts |-> NewPeriod(t), returned |-> FALSE, rollover |-> FALSE]
         ELSE [ts |-> t, returned |-> FALSE, rollover |-> FALSE]

\* lines 148-180: what follows the consumption of period time
PeriodEnd(t) ==
    IF t.byo_yomi_time_remaining = 0
    THEN LET u == [t EXCEPT !.byo_yomi_periods_remaining = @ - 1]
         IN  IF u.byo_yomi_periods_remaining = 0
             THEN [ts |-> [u EXCEPT !.timed_out = TRUE], returned |-> TRUE,
                   rollover |-> FALSE]
             ELSE [ts |-> NewPeriod(u), returned |-> FALSE, rollover |-> TRUE]
    ELSE IF t.byo_yomi_stones_remaining = 0
         THEN [ts |-> NewPeriod(t), returned |-> FALSE, rollover |-> FALSE]
         ELSE [ts |-> t, returned |-> FALSE, rollover |-> FALSE]

\* lines 137-180: the byo-yomi period
ByoYomiPeriod(t, ms, consumed) ==
    LET byo_time_elapsed == MIN(t.byo_yomi_time_remaining, ms)
        t1 == [t EXCEPT !.byo_yomi_time_remaining = @ - byo_time_elapsed]
        t2 == ConsumeStone(t1, consumed)
        e  == PeriodEnd(t2)
    IN  [ts |-> e.ts, ms |-> ms - byo_time_elapsed, returned |-> e.returned,
         rollover |-> e.rollover,
         dec |-> IF t2.byo_yomi_stones_remaining
                        # t1.byo_yomi_stones_remaining THEN 1 ELSE 0]

\* lines 132-190: one iteration of the loop
LoopBody(t, ms, consumed) ==
    IF t.main_time_remaining = 0
    THEN LET r == ByoYomiPeriod(t, ms, consumed)
         IN  [ts |-> r.ts, ms |-> r.ms, consumed |-> TRUE,
              returned |-> r.returned, rollover |-> r.rollover, dec |-> r.dec]
    ELSE LET r == AbsolutePeriod(t, ms)
         IN  [ts |-> r.ts, ms |-> r.ms, consumed |-> consumed,
              returned |-> FALSE, rollover |-> FALSE, dec |-> 0]

\* An iteration that changes nothing but the period counter: no main time, a
\* period time of 0, the stone of the call consumed and the stones restored.
\* From such a state the loop repeats this iteration until the counter is 0.
Spinning(t, ms, consumed) ==
    /\ t.main_time_remaining = 0
    /\ t.byo_yomi_time_remaining = 0
    /\ t.byo_yomi_time = 0
    /\ t.byo_yomi_stones_remaining = t.byo_yomi_stones
    /\ consumed = TRUE
    /\ ms # 0

\* A period counter of 2^31 or more: the counter wrapped below 0
Wrapped(n) == n < 0

advance_clock_call ==
    /\ pc = "idle"
    /\ \E ms \in 0 .. MaxElapsed :
        /\ call' = [op |-> "advance_clock", pre |-> ts, arg |-> ms,
                    iters |-> 0, decs |-> 0, rollovers |-> 0]
        /\ total' = IF total + ms > MaxMain + 1 THEN MaxMain + 1
                    ELSE total + ms
        /\ IF CanAdvance(ts) /\ ms # 0
           THEN /\ pc' = "loop"
                /\ milliseconds' = ms
                /\ consumed_byo_yomi_stone' = FALSE
           ELSE /\ pc' = "idle"
                /\ milliseconds' = 0
                /\ consumed_byo_yomi_stone' = FALSE
    /\ UNCHANGED <<ts, preset, engine_vars, text_vars, learn>>

\* lines 130-191: one iteration, and the loop condition after it
advance_clock_loop ==
    /\ pc = "loop"
    /\ ~(Spinning(ts, milliseconds, consumed_byo_yomi_stone)
            /\ Wrapped(ts.byo_yomi_periods_remaining))
    /\ LET r == LoopBody(ts, milliseconds, consumed_byo_yomi_stone)
       IN  /\ ts' = r.ts
           /\ call' = [call EXCEPT !.iters = Sat(@ + 1),
                                   !.decs = @ + r.dec,
                                   !.rollovers = Sat(@ + (IF r.rollover THEN 1 ELSE 0))]
           /\ IF r.returned \/ r.ms = 0
              THEN /\ pc' = "idle"
                   /\ milliseconds' = 0
                   /\ consumed_byo_yomi_stone' = FALSE
              ELSE /\ pc' = "loop"
                   /\ milliseconds' = r.ms
                   /\ consumed_byo_yomi_stone' = r.consumed
    /\ UNCHANGED <<preset, total, engine_vars, text_vars, learn>>

\* lines 130-191, the iterations of a spinning loop whose period counter
\* wrapped, taken together: each of them only decrements the counter, so
\* they leave it at 1 after more than 2^31 iterations
advance_clock_spin ==
    /\ pc = "loop"
    /\ Spinning(ts, milliseconds, consumed_byo_yomi_stone)
    /\ Wrapped(ts.byo_yomi_periods_remaining)
    /\ ts' = [ts EXCEPT !.byo_yomi_periods_remaining = 1]
    /\ call' = [call EXCEPT !.iters = IterCap, !.rollovers = IterCap]
    /\ UNCHANGED <<pc, milliseconds, consumed_byo_yomi_stone, preset, total,
                   engine_vars, text_vars, learn>>

do_set_time_system ==
    /\ pc = "idle"
    /\ \E m \in 0 .. MaxMain, t \in 0 .. MaxByo, s \in 1 .. MaxStones,
          p \in 1 .. MaxPeriods :
        /\ ts' = set_time_system(m, t, s, p)
        /\ call' = PresetCall("set_time_system", <<m, t, s, p>>, ts)
    /\ preset' = "set_time_system"
    /\ total' = 0
    /\ UNCHANGED <<pc, milliseconds, consumed_byo_yomi_stone, engine_vars,
                   text_vars, learn>>

\* mutant: timed_out is left as it was
do_set_sudden_death_KeepsTimedOut ==
    /\ pc = "idle"
    /\ \E m \in 0 .. MaxMain :
        /\ ts' = [set_sudden_death(m) EXCEPT !.timed_out = ts.timed_out]
        /\ call' = PresetCall("set_sudden_death", m, ts)
    /\ preset' = "set_sudden_death"
    /\ total' = 0
    /\ UNCHANGED <<pc, milliseconds, consumed_byo_yomi_stone, engine_vars,
                   text_vars, learn>>

do_set_sudden_death ==
    /\ pc = "idle"
    /\ \E m \in 0 .. MaxMain :
        /\ ts' = set_sudden_death(m)
        /\ call' = PresetCall("set_sudden_death", m, ts)
    /\ preset' = "set_sudden_death"
    /\ total' = 0
    /\ UNCHANGED <<pc, milliseconds, consumed_byo_yomi_stone, engine_vars,
                   text_vars, learn>>

do_set_time_per_turn ==
    /\ pc = "idle"
    /\ \E t \in 0 .. MaxByo :
        /\ ts' = set_time_per_turn(t)
        /\ call' = PresetCall("set_time_per_turn", t, ts)
    /\ preset' = "set_time_per_turn"
    /\ total' = 0
    /\ UNCHANGED <<pc, milliseconds, consumed_byo_yomi_stone, engine_vars,
                   text_vars, learn>>

do_reset_clock ==
    /\ pc = "idle"
    /\ ts' = reset_clock(ts)
    /\ call' = [NoCall("reset_clock") EXCEPT !.pre = ts]
    /\ total' = 0
    /\ UNCHANGED <<pc, milliseconds, consumed_byo_yomi_stone, preset,
                   engine_vars, text_vars, learn>>

(* The clocks, numbers of turns and latency settings calc_time_to_play is  *)
(* called with: clocks of the three presets, a byo-yomi clock at any point *)
(* of its main time and of a period, early and late turns, and the delay   *)
(* of the build without DETECT_NETWORK_LATENCY or a measured one with it.  *)

MainTimes == {0, 100, 190, 1000, 30000, 600000}

PeriodTimes == {0, 40, 120, 1000, 30000}

StonesLeft == {0, 1, 3}

PeriodsLeft == {1, 2}

TurnsPlayed == {0, 100, 235, 236, 240, 241, 400, 65535}

BudgetClocks ==
    {[set_time_system(600000, 30000, 3, 2) EXCEPT
          !.main_time_remaining = m,
          !.byo_yomi_time_remaining = b,
          !.byo_yomi_stones_remaining = n,
          !.byo_yomi_periods_remaining = p] :
        m \in MainTimes, b \in PeriodTimes, n \in StonesLeft,
        p \in PeriodsLeft}
      \cup {set_sudden_death(m) : m \in MainTimes}
      \cup {set_time_per_turn(b) : b \in PeriodTimes}

Networks ==
    {[detect |-> FALSE, set |-> FALSE, delay |-> LATENCY_COMPENSATION],
     [detect |-> TRUE, set |-> FALSE, delay |-> LATENCY_COMPENSATION]}
      \cup {[detect |-> TRUE, set |-> TRUE, delay |-> d] :
                d \in {0, LATENCY_COMPENSATION, 250}}

do_calc_time_to_play ==
    /\ pc = "idle"
    /\ \E turns_played \in TurnsPlayed, net \in Networks :
        LET r == calc_time_to_play(ts, turns_played, net)
        IN  /\ ts' = r.ts
            /\ call' = [op |-> "calc_time_to_play", pre |-> ts,
                        arg |-> turns_played, iters |-> 0, decs |-> 0,
                        rollovers |-> 0, net |-> net, res |-> r]
    /\ UNCHANGED <<pc, milliseconds, consumed_byo_yomi_stone, preset, total,
                   engine_vars, text_vars, learn>>

\* advance_clock called with the time calc_time_to_play just returned: the
\* play took all the time it was given.  One play is timed from a clock.
advance_clock_budget ==
    /\ pc = "idle"
    /\ call.op = "calc_time_to_play"
    /\ total = 0
    /\ LET ms == call.res.ret
       IN  /\ call' = [op |-> "advance_clock", pre |-> ts, arg |-> ms,
                       iters |-> 0, decs |-> 0, rollovers |-> 0,
                       turns_played |-> call.arg, net |-> call.net]
           /\ total' = IF total + ms > MaxMain + 1 THEN MaxMain + 1
                       ELSE total + ms
           /\ IF CanAdvance(ts) /\ ms # 0
              THEN /\ pc' = "loop"
                   /\ milliseconds' = ms
                   /\ consumed_byo_yomi_stone' = FALSE
              ELSE /\ pc' = "idle"
                   /\ milliseconds' = 0
                   /\ consumed_byo_yomi_stone' = FALSE
    /\ UNCHANGED <<ts, preset, engine_vars, text_vars, learn>>

BudgetNext ==
    \/ do_calc_time_to_play
    \/ advance_clock_budget
    \/ advance_clock_loop
    \/ do_reset_clock

-----------------------------------------------------------------------------
(* The engine: evaluate_position and the maintenance of the transpositions *)
(* table.  The board, the opening book, MCTS and the table itself are not  *)
(* among the sources: the book answers hit or miss, mcts_start returns a   *)
(* win rate, may add states to the table and may move komi_offset, and     *)
(* tt_clean_outside_tree keeps the states reachable from the board.        *)

States == 1 .. MaxCache

WinRates == {UCT_MIN_WINRATE - 1, UCT_MIN_WINRATE, UCT_MIN_WINRATE + 1}

KomiOffsets == (0 - MaxKomi) .. MaxKomi

\* mutant: the flag is not set after MCTS
evaluate_position_NoFlag(use_ob, flag, book_hit, found) ==
    IF use_ob /\ book_hit
    THEN [book |-> use_ob, mcts |-> FALSE, flag |-> flag, ret |-> TRUE]
    ELSE [book |-> use_ob, mcts |-> TRUE, flag |-> flag,
          ret |-> found.win_rate >= UCT_MIN_WINRATE]

\* mutant: a play found in the opening book also sets the flag
evaluate_position_BookSetsFlag(use_ob, flag, book_hit, found) ==
    IF use_ob /\ book_hit
    THEN [book |-> use_ob, mcts |-> FALSE, flag |-> TRUE, ret |-> TRUE]
    ELSE [book |-> use_ob, mcts |-> TRUE, flag |-> TRUE,
          ret |-> found.win_rate >= UCT_MIN_WINRATE]

\* mutant: a win rate equal to the minimum is reported as too low
evaluate_position_StrictMinimum(use_ob, flag, book_hit, found) ==
    IF use_ob /\ book_hit
    THEN [book |-> use_ob, mcts |-> FALSE, flag |-> flag, ret |-> TRUE]
    ELSE [book |-> use_ob, mcts |-> TRUE, flag |-> TRUE,
          ret |-> found.win_rate > UCT_MIN_WINRATE]

\* README lines 240-265.  book_hit is the answer of opening_book, found the
\* answers of mcts_start
evaluate_position(use_ob, flag, book_hit, found) ==
    IF use_ob /\ book_hit
    THEN [book |-> use_ob, mcts |-> FALSE, flag |-> flag, ret |-> TRUE]
    ELSE [book |-> use_ob, mcts |-> TRUE, flag |-> TRUE,
          ret |-> found.win_rate >= UCT_MIN_WINRATE]

\* README lines 291-306.  kept are the states reachable from the board
opt_turn_maintenance(flag, table, kept) ==
    IF flag
    THEN [pruned |-> TRUE, tt |-> table \cap kept,
          freed |-> Cardinality(table \ kept), flag |-> FALSE]
    ELSE [pruned |-> FALSE, tt |-> table, freed |-> 0, flag |-> flag]

\* mutant: the flag is left as it was
new_match_maintenance_KeepsFlag ==
    [tt |-> {}, flag |-> tt_requires_maintenance, komi_offset |-> 0]

\* README lines 271-284
new_match_maintenance ==
    [tt |-> {}, flag |-> FALSE, komi_offset |-> 0]

EngOp(op, r) ==
    [op |-> op, mcts |-> r.mcts, ret |-> r.ret, pruned |-> r.pruned,
     freed |-> r.freed,
     flag_before |-> tt_requires_maintenance,
     searched_before |-> searched,
     prev_op |-> eng.op, prev_pruned |-> eng.pruned,
     book |-> r.book, hit |-> r.hit, win_rate |-> r.win_rate,
     fresh |-> IF op = "new_match_maintenance" THEN TRUE
               ELSE IF r.mcts THEN FALSE ELSE eng.fresh,
     fresh_before |-> eng.fresh,
     prev_flag_before |-> eng.flag_before]

NoResult ==
    [mcts |-> FALSE, ret |-> TRUE, pruned |-> FALSE, freed |-> 0,
     book |-> FALSE, hit |-> FALSE, win_rate |-> 0]

do_set_use_of_opening_book ==
    /\ \E use_ob \in BOOLEAN : use_opening_book' = use_ob
    /\ eng' = EngOp("set_use_of_opening_book", NoResult)
    /\ UNCHANGED <<tt_requires_maintenance, komi_offset, tt, searched,
                   clock_vars, text_vars, learn>>

do_evaluate_position ==
    \E book_hit \in BOOLEAN, win_rate \in WinRates, added \in SUBSET States,
       komi \in KomiOffsets :
        LET found == [win_rate |-> win_rate]
            r == evaluate_position(use_opening_book, tt_requires_maintenance,
                                   book_hit, found)
        IN  /\ tt_requires_maintenance' = r.flag
            /\ tt' = IF r.mcts THEN tt \cup added ELSE tt
            /\ komi_offset' = IF r.mcts THEN komi ELSE komi_offset
            /\ searched' = (searched \/ r.mcts)
            /\ eng' = EngOp("evaluate_position",
                            [NoResult EXCEPT
                                !.mcts = r.mcts, !.ret = r.ret,
                                !.book = r.book,
                                !.hit = r.book /\ book_hit,
                                !.win_rate = IF r.mcts THEN win_rate ELSE 0])
            /\ UNCHANGED <<use_opening_book, clock_vars, text_vars, learn>>

do_opt_turn_maintenance ==
    \E kept \in SUBSET States :
        LET r == opt_turn_maintenance(tt_requires_maintenance, tt, kept)
        IN  /\ tt_requires_maintenance' = r.flag
            /\ tt' = r.tt
            /\ searched' = FALSE
            /\ eng' = EngOp("opt_turn_maintenance",
                            [NoResult EXCEPT !.pruned = r.pruned,
                                             !.freed = r.freed])
            /\ UNCHANGED <<use_opening_book, komi_offset, clock_vars, text_vars, learn>>

do_new_match_maintenance ==
    LET r == new_match_maintenance
    IN  /\ tt_requires_maintenance' = r.flag
        /\ tt' = r.tt
        /\ komi_offset' = r.komi_offset
        /\ searched' = FALSE
        /\ eng' = EngOp("new_match_maintenance", NoResult)
        /\ UNCHANGED <<use_opening_book, clock_vars, text_vars, learn>>

\* README lines 188-192: the static initializers
EngineIdle ==
    /\ use_opening_book = TRUE
    /\ tt_requires_maintenance = FALSE
    /\ komi_offset = 0
    /\ tt = {}
    /\ searched = FALSE
    /\ eng = [op |-> "none", mcts |-> FALSE, ret |-> TRUE, pruned |-> FALSE,
              freed |-> 0, flag_before |-> FALSE, searched_before |-> FALSE,
              prev_op |-> "none", prev_pruned |-> FALSE, book |-> FALSE,
              hit |-> FALSE, win_rate |-> 0, fresh |-> FALSE,
              fresh_before |-> FALSE, prev_flag_before |-> FALSE]

EngineNext ==
    \/ do_set_use_of_opening_book
    \/ do_evaluate_position
    \/ do_opt_turn_maintenance
    \/ do_new_match_maintenance

-----------------------------------------------------------------------------
(* The textual description of a time system, time+numberxtime/number.  A   *)
(* C string is the sequence of its characters.  trim, str_to_milliseconds  *)
(* and parse_int (stringm.c) are not among the sources; they are taken     *)
(* from the grammar of the format: a duration is an integer followed by    *)
(* nothing, ms, s, m or h, and a number is a decimal integer.              *)

Digits == <<"0", "1", "2", "3", "4", "5", "6", "7", "8", "9">>

DigitValue(c) == CHOOSE d \in 0 .. 9 : Digits[d + 1] = c

IsDigit(c) == \E d \in 0 .. 9 : Digits[d + 1] = c

\* snprintf %u of a value below 2^31
RECURSIVE U32ToStr(_)
U32ToStr(n) ==
    IF n < 10 THEN <<Digits[n + 1]>>
    ELSE U32ToStr(n \div 10) \o <<Digits[(n % 10) + 1]>>

\* the value of a sequence of digits
RECURSIVE DigitsValue(_)
DigitsValue(d) ==
    IF d = <<>> THEN 0
    ELSE 10 * DigitsValue(SubSeq(d, 1, Len(d) - 1)) + DigitValue(d[Len(d)])

AllDigits(d) == d # <<>> /\ \A i \in 1 .. Len(d) : IsDigit(d[i])

\* time_ctrl.c lines 215-236 and 239-260: the largest unit that divides the
\* time, and the time in that unit
\* mutant: minutes are the largest unit
UnitOf_NoHours(time) ==
    LET a0 == IF time = 0 THEN <<>> ELSE <<"m", "s">>
    IN  IF time >= 1000 /\ (time % 1000) = 0
        THEN LET t1 == time \div 1000
                 m  == t1 >= 60 /\ (t1 % 60) = 0
                 t2 == IF m THEN t1 \div 60 ELSE t1
             IN  [time |-> t2, unit |-> IF m THEN <<"m">> ELSE <<"s">>]
        ELSE [time |-> time, unit |-> a0]

UnitOf(time) ==
    LET a0 == IF time = 0 THEN <<>> ELSE <<"m", "s">>
    IN  IF time >= 1000 /\ (time % 1000) = 0
        THEN LET t1 == time \div 1000
                 m  == t1 >= 60 /\ (t1 % 60) = 0
                 t2 == IF m THEN t1 \div 60 ELSE t1
                 h  == t2 >= 60 /\ (t2 % 60) = 0
                 t3 == IF h THEN t2 \div 60 ELSE t2
             IN  [time |-> t3,
                  unit |-> IF h THEN <<"h">> ELSE IF m THEN <<"m">> ELSE <<"s">>]
        ELSE [time |-> time, unit |-> a0]

\* time_ctrl.c lines 211-266
time_system_to_str(t) ==
    LET a == UnitOf(t.main_time)
        b == UnitOf(t.byo_yomi_time)
    IN  U32ToStr(a.time) \o a.unit \o <<"+">> \o U32ToStr(t.byo_yomi_periods)
            \o <<"x">> \o U32ToStr(b.time) \o b.unit \o <<"/">>
            \o U32ToStr(t.byo_yomi_stones)

\* index(s, c): the place of the first c in s, 0 for NULL
index(s, c) ==
    IF \E i \in 1 .. Len(s) : s[i] = c
    THEN CHOOSE i \in 1 .. Len(s) : s[i] = c /\ \A j \in 1 .. i - 1 : s[j] # c
    ELSE 0

\* trim: s without the white space at its ends
RECURSIVE trim(_)
trim(s) ==
    IF s = <<>> THEN s
    ELSE IF Head(s) = " " THEN trim(Tail(s))
    ELSE IF s[Len(s)] = " " THEN trim(SubSeq(s, 1, Len(s) - 1))
    ELSE s

\* str_to_milliseconds: the duration in milliseconds, -1 if it is not one
str_to_milliseconds(s) ==
    LET n == Len(s)
        u == IF n >= 2 /\ s[n - 1] = "m" /\ s[n] = "s" THEN 2
             ELSE IF n >= 1 /\ s[n] \in {"s", "m", "h"} THEN 1
             ELSE 0
        d == SubSeq(s, 1, n - u)
        mul == IF u = 2 \/ u = 0 THEN 1
               ELSE IF s[n] = "s" THEN 1000
               ELSE IF s[n] = "m" THEN 60000
               ELSE 3600000
    IN  IF AllDigits(d) THEN DigitsValue(d) * mul ELSE 0 - 1

\* parse_int: whether s is a decimal integer, and its value
parse_int(s) ==
    IF AllDigits(s) THEN [ok |-> TRUE, i |-> DigitsValue(s)]
    ELSE IF s # <<>> /\ Head(s) = "-" /\ AllDigits(Tail(s))
         THEN [ok |-> TRUE, i |-> 0 - DigitsValue(Tail(s))]
         ELSE [ok |-> FALSE, i |-> 0]

Failure(dst) == [ret |-> FALSE, dst |-> dst]

\* mutant: the fields read so far are stored before the number of stones is
\* looked at
ParseByoYomi_StoresEarly(s, dst, absolute_milliseconds, byoyomi_periods) ==
    LET char_idx == index(s, "/")
        t == str_to_milliseconds(SubSeq(s, 1, char_idx - 1))
        n == parse_int(SubSeq(s, char_idx + 1, Len(s)))
        early == [dst EXCEPT !.main_time = absolute_milliseconds,
                             !.byo_yomi_periods = byoyomi_periods]
    IN  IF char_idx = 0 THEN Failure(dst)
        ELSE IF t < 0 THEN Failure(dst)
        ELSE IF ~n.ok \/ n.i < 1 THEN Failure(early)
        ELSE [ret |-> TRUE,
              dst |-> [early EXCEPT !.byo_yomi_stones = n.i,
                                    !.byo_yomi_time = t]]

\* mutant: a number of stones of 0 is taken
ParseByoYomi_TakesNoStones(s, dst, absolute_milliseconds, byoyomi_periods) ==
    LET char_idx == index(s, "/")
        t == str_to_milliseconds(SubSeq(s, 1, char_idx - 1))
        n == parse_int(SubSeq(s, char_idx + 1, Len(s)))
    IN  IF char_idx = 0 THEN Failure(dst)
        ELSE IF t < 0 THEN Failure(dst)
        ELSE IF ~n.ok \/ n.i < 0 THEN Failure(dst)
        ELSE [ret |-> TRUE,
              dst |-> [dst EXCEPT !.main_time = absolute_milliseconds,
                                  !.byo_yomi_stones = n.i,
                                  !.byo_yomi_time = t,
                                  !.byo_yomi_periods = byoyomi_periods]]

\* time_ctrl.c lines 338-375: ... x time / number
ParseByoYomi(s, dst, absolute_milliseconds, byoyomi_periods) ==
    LET char_idx == index(s, "/")
        t == str_to_milliseconds(SubSeq(s, 1, char_idx - 1))
        n == parse_int(SubSeq(s, char_idx + 1, Len(s)))
    IN  IF char_idx = 0 THEN Failure(dst)
        ELSE IF t < 0 THEN Failure(dst)
        ELSE IF ~n.ok \/ n.i < 1 THEN Failure(dst)
        ELSE [ret |-> TRUE,
              dst |-> [dst EXCEPT !.main_time = absolute_milliseconds,
                                  !.byo_yomi_stones = n.i,
                                  !.byo_yomi_time = t,
                                  !.byo_yomi_periods = byoyomi_periods]]

\* time_ctrl.c lines 318-336: ... + number x ...
ParsePeriods(s, dst, absolute_milliseconds) ==
    LET char_idx == index(s, "x")
        n == parse_int(SubSeq(s, 1, char_idx - 1))
    IN  IF char_idx = 0 THEN Failure(dst)
        ELSE IF ~n.ok \/ n.i < 0 THEN Failure(dst)
        ELSE ParseByoYomi(SubSeq(s, char_idx + 1, Len(s)), dst,
                          absolute_milliseconds, n.i)

\* time_ctrl.c lines 297-316: time + ...
ParseMain(s, dst) ==
    LET char_idx == index(s, "+")
        t == str_to_milliseconds(SubSeq(s, 1, char_idx - 1))
    IN  IF char_idx = 0 THEN Failure(dst)
        ELSE IF t < 0 THEN Failure(dst)
        ELSE ParsePeriods(SubSeq(s, char_idx + 1, Len(s)), dst, t)

\* the shortest string str_to_time_system takes (lines 280 and 291)
MinLen == 9

\* time_ctrl.c lines 272-376
str_to_time_system(source, dst, malloc_ok) ==
    IF source.null THEN Failure(dst)
    ELSE IF Len(source.s) < MinLen THEN Failure(dst)
    ELSE IF ~malloc_ok THEN Failure(dst)
    ELSE LET s == trim(source.s)
         IN  IF Len(s) < MinLen THEN Failure(dst)
             ELSE ParseMain(s, dst)

(* The strings given to str_to_time_system: every duration, number of      *)
(* periods and number of stones below, put together in the format, some of *)
(* them with a separator missing or white space around them.               *)

Magnitudes == {0, 1, 60, 90}

Units == {<<>>, <<"m", "s">>, <<"s">>, <<"m">>, <<"h">>}

Durations == {[n |-> n, unit |-> u] : n \in Magnitudes, u \in Units}

DurationStr(d) == U32ToStr(d.n) \o d.unit

Numbers == {<<"0">>, <<"1">>, <<"5">>, <<"-", "1">>}

Compose(main, periods, byo, stones) ==
    DurationStr(main) \o <<"+">> \o periods \o <<"x">> \o DurationStr(byo)
        \o <<"/">> \o stones

WellFormed ==
    {Compose(m, p, b, n) : m \in Durations, p \in Numbers, b \in Durations,
                           n \in Numbers}

IllFormed ==
    {<<"1", "s", "+", "1", "x", "1", "s", "1", "1", "1">>,
     <<"1", "s", "+", "1", "1", "1", "s", "/", "1", "1">>,
     <<"1", "s", "1", "1", "x", "1", "s", "/", "1", "1">>,
     <<"1", "s", "+", "1", "x", "1", "s", "/", "1", " ", " ">>,
     <<" ", "6", "0", "s", "+", "1", "x", "1", "s", "/", "1", " ">>,
     <<"1", "q", "+", "1", "x", "1", "s", "/", "1", "1">>,
     <<"1", "s", "+", "1", "x", "s", "s", "s", "/", "1">>,
     <<"1", "s", "+", "1", "x", "1", "s", "/", "x", "1">>,
     <<"1", "s", "+", "q", "x", "1", "s", "/", "1", "1">>,
     <<" ", "0", "+", "1", "x", "1", "s", "/", "1">>,
     <<"1", "+", "1", "x", "1", "/", "1">>,
     <<>>}

Inputs ==
    {[null |-> FALSE, s |-> s] : s \in WellFormed \cup IllFormed}
        \cup {[null |-> TRUE, s |-> <<>>]}

\* what the destination may hold before the call
Destinations ==
    {set_time_per_turn(1), set_time_system(2, 3, 2, 3),
     [set_time_system(2, 3, 2, 3) EXCEPT !.main_time_remaining = 0,
                                        !.byo_yomi_time_remaining = 1,
                                        !.byo_yomi_stones_remaining = 1],
     set_time_system(1500, 3660000, 1, 1),
     set_time_system(7200000, 61000, 2, 12)}

do_str_to_time_system ==
    /\ parse.ret = "none"
    /\ \E malloc_ok \in BOOLEAN :
        LET r == str_to_time_system(src, ts, malloc_ok)
        IN  /\ ts' = r.dst
            /\ parse' = [ret |-> IF r.ret THEN "true" ELSE "false",
                         malloc_ok |-> malloc_ok, dst |-> ts]
    /\ UNCHANGED <<pc, milliseconds, consumed_byo_yomi_stone, preset, call,
                   total, engine_vars, src, out, learn>>

do_time_system_to_str ==
    /\ out' = [done |-> TRUE, s |-> time_system_to_str(ts),
               parsed |-> parse.ret, of |-> ts]
    /\ UNCHANGED <<clock_vars, engine_vars, src, parse, learn>>

TextNext ==
    \/ do_str_to_time_system
    \/ do_time_system_to_str

-----------------------------------------------------------------------------
(* ob_learn: the loop of main over the game states read from the game      *)
(* records (src/src/ob_learn/main.c lines 258-320).  ssts holds the        *)
(* popularity of every unique state, idx counts from 1.  The opening book  *)
(* and MCTS are not among the sources: the book answers hit or miss,       *)
(* mcts_start adds states to the transpositions table, select_play_fast    *)
(* returns a play on the board or a pass.  log lists what became of the    *)
(* states looked at, clean tells whether the table was empty when the last *)
(* mcts_start began, hit what the opening book last answered.              *)

Arrays ==
    UNION {[1 .. n -> 1 .. MaxPopularity] : n \in 1 .. MaxUnique}

LearnIdle ==
    learn = [pc |-> "none", idx |-> 1, ssts |-> <<>>, minimum_samples |-> 1,
             tt |-> {}, evaluated |-> 0, log |-> <<>>, clean |-> TRUE,
             hit |-> FALSE]

LearnInit ==
    \E ssts \in Arrays, minimum_samples \in 1 .. MaxPopularity :
        learn = [pc |-> "for", idx |-> 1, ssts |-> ssts,
                 minimum_samples |-> minimum_samples, tt |-> {},
                 evaluated |-> 0, log |-> <<>>, clean |-> TRUE,
                 hit |-> FALSE]

\* continue: the next state
Continue(l, what) ==
    [l EXCEPT !.pc = "for", !.idx = @ + 1, !.log = Append(@, what)]

\* lines 258-271 and 321-327: the loop condition, the number of samples and
\* the opening book
learn_for ==
    /\ learn.pc = "for"
    /\ IF learn.idx > Len(learn.ssts)
       THEN learn' = [learn EXCEPT !.pc = "done"]
       ELSE IF learn.ssts[learn.idx] >= learn.minimum_samples
            THEN \E book_hit \in BOOLEAN :
                    LET l == [learn EXCEPT !.evaluated = @ + 1,
                                           !.hit = book_hit]
                    IN  learn' = IF book_hit THEN Continue(l, "book")
                                 ELSE [l EXCEPT !.pc = "mcts_start"]
            ELSE learn' = Continue(learn, "few")
    /\ UNCHANGED <<clock_vars, engine_vars, text_vars>>

\* lines 273-275
learn_mcts_start ==
    /\ learn.pc = "mcts_start"
    /\ \E added \in SUBSET States :
        learn' = [learn EXCEPT !.pc = "select_play",
                               !.clean = learn.tt = {},
                               !.tt = @ \cup added]
    /\ UNCHANGED <<clock_vars, engine_vars, text_vars>>

\* mutant: a pass leaves the loop body before the table is cleaned
learn_select_play_PassKeepsTable ==
    /\ learn.pc = "select_play"
    /\ \E best \in {"move", "pass"} :
        learn' = IF best = "pass" THEN Continue(learn, "pass")
                 ELSE [learn EXCEPT !.tt = {}, !.pc = "write"]
    /\ UNCHANGED <<clock_vars, engine_vars, text_vars>>

\* lines 277-284: select_play_fast, tt_clean_all and the test for a pass
learn_select_play ==
    /\ learn.pc = "select_play"
    /\ \E best \in {"move", "pass"} :
        LET l == [learn EXCEPT !.tt = {}]
        IN  learn' = IF best = "pass" THEN Continue(l, "pass")
                     ELSE [l EXCEPT !.pc = "write"]
    /\ UNCHANGED <<clock_vars, engine_vars, text_vars>>

\* lines 286-318: the play is written to the output file
learn_write ==
    /\ learn.pc = "write"
    /\ \E w \in {0, 1} :
        learn' = IF w # 1 THEN [learn EXCEPT !.pc = "exit"]
                 ELSE Continue(learn, "move")
    /\ UNCHANGED <<clock_vars, engine_vars, text_vars>>

LearnNext ==
    \/ learn_for
    \/ learn_mcts_start
    \/ learn_select_play
    \/ learn_write

-----------------------------------------------------------------------------
(* The specifications. *)

ClockIdle ==
    /\ pc = "idle"
    /\ milliseconds = 0
    /\ consumed_byo_yomi_stone = FALSE
    /\ total = 0

ClockInit ==
    /\ ClockIdle
    /\ \/ /\ \E m \in 0 .. MaxMain, t \in 0 .. MaxByo, s \in 1 .. MaxStones,
                p \in 1 .. MaxPeriods :
                /\ ts = set_time_system(m, t, s, p)
                /\ call = [NoCall("set_time_system") EXCEPT
                               !.arg = <<m, t, s, p>>]
          /\ preset = "set_time_system"
       \/ /\ \E m \in 0 .. MaxMain :
                /\ ts = set_sudden_death(m)
                /\ call = [NoCall("set_sudden_death") EXCEPT !.arg = m]
          /\ preset = "set_sudden_death"
       \/ /\ \E t \in 0 .. MaxByo :
                /\ ts = set_time_per_turn(t)
                /\ call = [NoCall("set_time_per_turn") EXCEPT !.arg = t]
          /\ preset = "set_time_per_turn"

ClockNext ==
    \/ advance_clock_call
    \/ advance_clock_loop
    \/ advance_clock_spin
    \/ do_set_time_system
    \/ do_set_sudden_death
    \/ do_set_time_per_turn
    \/ do_reset_clock

TextIdle ==
    /\ src = [null |-> TRUE, s |-> <<>>]
    /\ parse = [ret |-> "none", malloc_ok |-> TRUE, dst |-> <<>>]
    /\ out = [done |-> FALSE, s |-> <<>>, parsed |-> "none", of |-> <<>>]

ClockStart == ClockInit /\ EngineIdle /\ TextIdle /\ LearnIdle

ClockSpec == ClockStart /\ [][ClockNext]_vars

\* a call that is running goes on running
FairClockSpec ==
    /\ ClockSpec
    /\ WF_vars(advance_clock_loop)
    /\ WF_vars(advance_clock_spin)

EngineStart ==
    /\ EngineIdle
    /\ LearnIdle
    /\ TextIdle
    /\ ClockIdle
    /\ ts = set_time_per_turn(1)
    /\ preset = "set_time_per_turn"
    /\ call = NoCall(preset)

EngineSpec == EngineStart /\ [][EngineNext]_vars

TextStart ==
    /\ EngineIdle
    /\ LearnIdle
    /\ ClockIdle
    /\ ts \in Destinations
    /\ preset = IF ts.can_timeout THEN "set_time_system"
                ELSE "set_time_per_turn"
    /\ call = NoCall(preset)
    /\ src \in Inputs
    /\ parse = [ret |-> "none", malloc_ok |-> TRUE, dst |-> <<>>]
    /\ out = [done |-> FALSE, s |-> <<>>, parsed |-> "none", of |-> <<>>]

TextSpec == TextStart /\ [][TextNext]_vars

BudgetStart ==
    /\ EngineIdle
    /\ LearnIdle
    /\ TextIdle
    /\ ClockIdle
    /\ ts \in BudgetClocks
    /\ preset = IF ~ts.can_timeout THEN "set_time_per_turn"
                ELSE IF ts.byo_yomi_periods = 0 THEN "set_sudden_death"
                ELSE "set_time_system"
    /\ call = NoCall(preset)

BudgetSpec == BudgetStart /\ [][BudgetNext]_vars

LearnStart ==
    /\ EngineIdle
    /\ TextIdle
    /\ ClockIdle
    /\ ts = set_time_per_turn(1)
    /\ preset = "set_time_per_turn"
    /\ call = NoCall(preset)
    /\ LearnInit

LearnSpec == LearnStart /\ [][LearnNext]_vars

-----------------------------------------------------------------------------
(* Properties. *)

Presets == {"set_time_system", "set_sudden_death", "set_time_per_turn"}

\* the last operation was an advance_clock call, and it has returned
Returned == call.op = "advance_clock" /\ pc = "idle"

\* a u32 within [0, configured]
Within(v, configured) == ULe(v, configured)

\* C1: conservation: in every state, the states inside the loop included,
\* each remaining value lies within [0, its configured value] (no counter
\* wraps below 0).
C1_Conservation ==
    /\ Within(ts.main_time_remaining, ts.main_time)
    /\ Within(ts.byo_yomi_time_remaining, ts.byo_yomi_time)
    /\ Within(ts.byo_yomi_stones_remaining, ts.byo_yomi_stones)
    /\ Within(ts.byo_yomi_periods_remaining, ts.byo_yomi_periods)

\* the case of C2: a call on a byo-yomi clock in overtime with at least 3
\* periods left, which went through two new periods and did not time out
C2_Case ==
    /\ Returned
    /\ preset = "set_time_system"
    /\ CanAdvance(call.pre)
    /\ call.pre.main_time_remaining = 0
    /\ call.pre.byo_yomi_periods_remaining >= 3
    /\ call.rollovers = 2
    /\ ~ts.timed_out

\* C2 as claimed: such a call leaves byo_yomi_stones_remaining exactly 1
\* lower than it was before the call.
C2_OneStoneLower ==
    C2_Case =>
        ts.byo_yomi_stones_remaining = call.pre.byo_yomi_stones_remaining - 1

\* C2 as amended: such a call decrements byo_yomi_stones_remaining exactly
\* once, and as each new period restores the stones it leaves
\* byo_yomi_stones_remaining at the configured byo_yomi_stones, with
\* two periods fewer.
C2_OneDecrement ==
    C2_Case =>
        /\ call.decs = 1
        /\ ts.byo_yomi_stones_remaining = ts.byo_yomi_stones
        /\ ts.byo_yomi_periods_remaining =
               call.pre.byo_yomi_periods_remaining - 2

C2_Witness ==
    /\ C2_Case
    /\ call.iters = 3
    /\ ts.byo_yomi_time_remaining # ts.byo_yomi_time

\* C3: on a sudden death clock, once the elapsed time reported exceeds
\* main_time the clock is timed out when the call returns, the call that
\* makes it so ends timed out, and every call returns.
C3_SuddenDeathTimesOut ==
    /\ [](preset = "set_sudden_death" /\ pc = "idle" /\ total > ts.main_time
            => ts.timed_out)
    /\ ((preset = "set_sudden_death" /\ pc = "loop" /\ total > ts.main_time)
            ~> (pc = "idle" /\ ts.timed_out))
    /\ ((pc = "loop") ~> (pc = "idle"))

C3_Witness ==
    /\ Returned
    /\ preset = "set_sudden_death"
    /\ ts.timed_out
    /\ call.pre.main_time_remaining # 0
    /\ ULt(call.pre.main_time_remaining, call.arg)
    /\ ~call.pre.timed_out

\* the case of C4: the clock held main_time = 0, byo_yomi_time = T > 0, one
\* stone and one period, nothing consumed, and advance_clock(T) returned
C4_Case ==
    /\ Returned
    /\ call.pre.main_time = 0
    /\ call.pre.byo_yomi_time # 0
    /\ call.pre.byo_yomi_stones = 1
    /\ call.pre.byo_yomi_periods = 1
    /\ call.pre = reset_clock(call.pre)
    /\ call.arg = call.pre.byo_yomi_time

\* C4 as claimed: whichever preset installed the configuration, the clock
\* is timed out after the call.
C4_TimeoutAnyPreset == C4_Case => ts.timed_out

\* C4 as amended: the clock is timed out after the call when the byo-yomi
\* preset installed the configuration; when the time per turn preset did,
\* the call changes nothing and the clock is not timed out.
C4_TimeoutByoYomiOnly ==
    C4_Case =>
        /\ preset = "set_time_system" => ts.timed_out
        /\ preset = "set_time_per_turn" => ts = call.pre /\ ~ts.timed_out

C4_Witness ==
    /\ C4_Case
    /\ preset = "set_time_system"
    /\ ts.timed_out
    /\ ts.byo_yomi_periods_remaining = 0

\* the case of C5: a call on a byo-yomi clock in overtime that plays the last
\* stone of the period with less elapsed time than the period has left
C5_Case ==
    /\ Returned
    /\ preset = "set_time_system"
    /\ CanAdvance(call.pre)
    /\ call.pre.main_time_remaining = 0
    /\ call.pre.byo_yomi_stones_remaining = 1
    /\ call.arg # 0
    /\ ULt(call.arg, call.pre.byo_yomi_time_remaining)

\* C5: the call that plays the last stone while period time is left restores
\* the period time and the stones and charges no period.
C5_Replenished ==
    C5_Case =>
        /\ ts.byo_yomi_time_remaining = ts.byo_yomi_time
        /\ ts.byo_yomi_stones_remaining = ts.byo_yomi_stones
        /\ ts.byo_yomi_periods_remaining =
               call.pre.byo_yomi_periods_remaining
        /\ ~ts.timed_out

C5_Witness ==
    /\ C5_Case
    /\ ts.byo_yomi_stones = 2
    /\ call.pre.byo_yomi_time_remaining # ts.byo_yomi_time
    /\ ts.byo_yomi_periods_remaining = 2

\* C6: opt_turn_maintenance prunes the table if and only if
\* evaluate_position ran MCTS since the last maintenance call; a second
\* opt_turn_maintenance in a row prunes nothing; setting the use of the
\* opening book and a book hit leave tt_requires_maintenance as it was.
C6_MaintenanceGating ==
    /\ eng.op = "opt_turn_maintenance" =>
          /\ eng.pruned <=> eng.searched_before
          /\ eng.prev_op = "opt_turn_maintenance" =>
                ~eng.pruned /\ eng.freed = 0
          /\ ~tt_requires_maintenance
    /\ eng.op = "set_use_of_opening_book" =>
          tt_requires_maintenance = eng.flag_before
    /\ (eng.op = "evaluate_position" /\ ~eng.mcts) =>
          tt_requires_maintenance = eng.flag_before

C6_Witness ==
    /\ eng.op = "opt_turn_maintenance"
    /\ eng.prev_op = "opt_turn_maintenance"
    /\ eng.prev_pruned
    /\ ~eng.pruned
    /\ tt # {}

\* C7 as claimed: from a timed out clock an advance_clock call changes no
\* field, and only reset_clock makes timed_out false again.
C7_OnlyReset ==
    [][ts.timed_out =>
          /\ call'.op = "advance_clock" => ts' = ts
          /\ ~ts'.timed_out => call'.op = "reset_clock"]_vars

\* C7 as amended: from a timed out clock an advance_clock call changes no
\* field, and only reset_clock and the three presets make timed_out false
\* again.
C7_ResetOrPreset ==
    [][ts.timed_out =>
          /\ call'.op = "advance_clock" => ts' = ts
          /\ ~ts'.timed_out => call'.op \in Presets \cup {"reset_clock"}]_vars

C7_Witness ==
    /\ Returned
    /\ call.pre.timed_out
    /\ call.arg # 0
    /\ ts.timed_out

\* C8: timed_out implies can_timeout; a clock set by the time per turn preset
\* cannot time out, no advance_clock call changes any of its fields and it
\* is never timed out.
C8_Untimed ==
    /\ ts.timed_out => ts.can_timeout
    /\ preset = "set_time_per_turn" =>
          /\ ~ts.can_timeout
          /\ ~ts.timed_out
          /\ pc = "idle"
          /\ call.op = "advance_clock" => ts = call.pre

C8_Witness ==
    /\ Returned
    /\ preset = "set_time_per_turn"
    /\ ts.byo_yomi_time # 0
    /\ ULt(ts.byo_yomi_time, call.arg)

\* C9: the loop of an advance_clock call runs at most
\* byo_yomi_periods_remaining + 1 iterations, byo_yomi_periods_remaining
\* taken at the start of the call.
C9_IterationBound ==
    call.op = "advance_clock" =>
        call.iters <= call.pre.byo_yomi_periods_remaining + 1

\* a duration written in its largest exact unit, 0 written as 0
CanonicalDuration(d) ==
    IF d.n = 0 THEN d.unit = <<>>
    ELSE \/ d.unit = <<"h">>
         \/ d.unit = <<"m">> /\ d.n % 60 # 0
         \/ d.unit = <<"s">> /\ d.n % 60 # 0
         \/ d.unit = <<"m", "s">> /\ d.n % 1000 # 0

PositiveNumbers == {<<"1">>, <<"5">>}

\* the canonical strings of the grammar among the inputs
Canonical ==
    {Compose(m, p, b, n) :
        m \in {d \in Durations : CanonicalDuration(d)}, p \in PositiveNumbers,
        b \in {d \in Durations : CanonicalDuration(d)}, n \in PositiveNumbers}

\* C10: round trip: str_to_time_system takes every canonical string of the
\* grammar, and time_system_to_str of what it stored is that string.
C10_RoundTrip ==
    (~src.null /\ src.s \in Canonical /\ parse.ret # "none"
        /\ parse.malloc_ok) =>
        /\ parse.ret = "true"
        /\ (out.done /\ out.parsed # "none") => out.s = src.s

\* the round trip of the canonical strings of 9 characters or more
C10_RoundTripLong ==
    (~src.null /\ src.s \in Canonical /\ Len(src.s) >= MinLen
        /\ parse.ret # "none" /\ parse.malloc_ok) =>
        /\ parse.ret = "true"
        /\ (out.done /\ out.parsed # "none") => out.s = src.s


-----------------------------------------------------------------------------
(* C11: whenever str_to_time_system returns false, for a NULL string, a    *)
(* string shorter than 9 characters before or after trimming, a missing    *)
(* "+", "x" or "/", a malformed duration, a malformed or negative number   *)
(* of periods or a number of stones below 1, every field of the            *)
(* destination holds the value it held before the call.                    *)
C11_AllOrNothing ==
    parse.ret = "false" => ts = parse.dst

\* the call failed at the last check, the number of stones, after a main
\* time and a number of periods that differ from the destination's were read
C11_Witness ==
    /\ parse.ret = "false"
    /\ parse.malloc_ok
    /\ src = [null |-> FALSE,
              s |-> <<"6", "0", "s", "+", "5", "x", "1", "s", "/", "0">>]
    /\ parse.dst.main_time # 60000
    /\ parse.dst.byo_yomi_periods # 5
    /\ ts = parse.dst

-----------------------------------------------------------------------------
(* C12 as stated: str_to_time_system returns false for every string whose  *)
(* number of periods or number of stones is not a positive integer, a      *)
(* number of periods of 0 included, so a time system it read has neither   *)
(* byo_yomi_periods = 0 nor byo_yomi_stones = 0.                           *)
C12_PositiveCounts ==
    parse.ret = "true" => ts.byo_yomi_periods >= 1 /\ ts.byo_yomi_stones >= 1

(* C12 amended: str_to_time_system returns false for every string whose    *)
(* number of stones is below 1 or whose number of periods is negative; a   *)
(* number of periods of 0 is taken, so a time system it read has           *)
(* byo_yomi_stones >= 1 and byo_yomi_periods >= 0.                         *)
C12_PositiveStones ==
    parse.ret = "true" => ts.byo_yomi_periods >= 0 /\ ts.byo_yomi_stones >= 1

\* "1s+0x1s/1" was read: 0 periods
C12_Witness ==
    /\ parse.ret = "true"
    /\ src.s = <<"1", "s", "+", "0", "x", "1", "s", "/", "1">>
    /\ parse.dst.byo_yomi_periods # 0
    /\ ts.byo_yomi_periods = 0
    /\ ts.byo_yomi_stones = 1

-----------------------------------------------------------------------------
(* C13: when the opening book is in use and holds a play for the position, *)
(* evaluate_position returns without running MCTS, leaves                  *)
(* tt_requires_maintenance as it was and returns true (the player may not  *)
(* resign); when the opening book is not in use it is not asked.           *)
C13_BookHit ==
    eng.op = "evaluate_position" =>
        /\ eng.book = use_opening_book
        /\ eng.book /\ eng.hit =>
            /\ ~eng.mcts
            /\ tt_requires_maintenance = eng.flag_before
            /\ eng.ret

\* a play was found in the book while the flag was set: the flag is still set
C13_Witness ==
    /\ eng.op = "evaluate_position"
    /\ eng.book
    /\ eng.hit
    /\ eng.flag_before
    /\ tt_requires_maintenance
    /\ ~eng.mcts

(* C14: evaluate_position returns false (the player may resign) exactly    *)
(* when it ran MCTS and the win rate was strictly below UCT_MIN_WINRATE; a *)
(* win rate equal to the minimum does not make it return false.            *)
C14_Resignation ==
    eng.op = "evaluate_position" =>
        (~eng.ret <=> eng.mcts /\ eng.win_rate < UCT_MIN_WINRATE)

\* MCTS ran and the win rate was the minimum itself
C14_Witness ==
    /\ eng.op = "evaluate_position"
    /\ eng.mcts
    /\ eng.win_rate = UCT_MIN_WINRATE
    /\ eng.ret

(* C15: new_match_maintenance, from any state, leaves the transpositions   *)
(* table empty, tt_requires_maintenance false and komi_offset 0; after it  *)
(* opt_turn_maintenance does nothing until evaluate_position runs MCTS     *)
(* again.                                                                  *)
C15_NewMatch ==
    /\ eng.op = "new_match_maintenance" =>
        /\ tt = {}
        /\ ~tt_requires_maintenance
        /\ komi_offset = 0
        /\ eng.fresh
    /\ eng.op = "opt_turn_maintenance" /\ eng.fresh_before =>
        /\ ~eng.pruned
        /\ eng.freed = 0
        /\ tt = {}
        /\ ~tt_requires_maintenance
        /\ komi_offset = 0

\* opt_turn_maintenance right after a new_match_maintenance that found the
\* flag set
C15_Witness ==
    /\ eng.op = "opt_turn_maintenance"
    /\ eng.prev_op = "new_match_maintenance"
    /\ eng.prev_flag_before
    /\ eng.fresh_before
    /\ ~eng.pruned

-----------------------------------------------------------------------------
\* the call of calc_time_to_play that returned last
Budget == call.op = "calc_time_to_play"

\* the delay the call compared its time with
Delay ==
    [n |-> IF call.net.detect THEN call.net.delay ELSE LATENCY_COMPENSATION,
     d |-> 1]

\* a less a whole number of milliseconds
QLess(a, ms) == [n |-> a.n - ms * a.d, d |-> a.d]

(* C16: calc_time_to_play returns a non-negative value for every clock and *)
(* every number of turns played; the latency is subtracted only when what  *)
(* is left is not negative, and otherwise the time is returned as it was,  *)
(* neither set to 0 nor wrapped.                                           *)
C16_NonNegative ==
    Budget =>
        LET r == call.res
            left == QLess(r.allotted, Delay.n)
        IN  /\ r.ret >= 0
            /\ r.corrected.n >= 0 /\ r.corrected.d > 0
            /\ r.subtracted => left.n >= 0 /\ r.corrected = left
            /\ left.n < 0 => ~r.subtracted
            /\ ~r.subtracted => r.corrected = r.allotted
            /\ r.ret * r.corrected.d <= r.corrected.n
            /\ r.corrected.n < (r.ret + 1) * r.corrected.d

\* the time is positive and smaller than the delay: it is returned as it is
C16_Witness ==
    /\ Budget
    /\ call.res.allotted.n > 0
    /\ QLt(call.res.allotted, Delay)
    /\ ~call.res.subtracted
    /\ call.res.ret > 0
    /\ call.res.ret * call.res.allotted.d <= call.res.allotted.n

(* C17: before the factor and the latency correction the time is the       *)
(* larger of byo_yomi_time_remaining / byo_yomi_stones_remaining and       *)
(* main_time_remaining / turns_left when byo_yomi_stones_remaining > 0,    *)
(* and main_time_remaining / turns_left otherwise, where turns_left is the *)
(* larger of 2/3 of the board area less the turns played and a quarter of  *)
(* the board size; turns_left is positive, so nothing is divided by 0, and *)
(* the call changes no field of the clock.                                 *)
C17_Formula ==
    Budget =>
        LET r == call.res
            area == BOARD_SIZ * BOARD_SIZ
            decaying == [n |-> 2 * area - 3 * call.arg, d |-> 3]
            floor == [n |-> BOARD_SIZ, d |-> 4]
            main_share == [n |-> call.pre.main_time_remaining * r.turns_left.d,
                           d |-> r.turns_left.n]
            byo_share == [n |-> call.pre.byo_yomi_time_remaining,
                          d |-> call.pre.byo_yomi_stones_remaining]
        IN  /\ r.turns_left.n > 0 /\ r.turns_left.d > 0
            /\ QLe(decaying, r.turns_left) /\ QLe(floor, r.turns_left)
            /\ QEq(r.turns_left, decaying) \/ QEq(r.turns_left, floor)
            /\ r.t_t.d > 0
            /\ IF call.pre.byo_yomi_stones_remaining > 0
               THEN /\ QLe(byo_share, r.t_t) /\ QLe(main_share, r.t_t)
                    /\ QEq(r.t_t, byo_share) \/ QEq(r.t_t, main_share)
               ELSE QEq(r.t_t, main_share)
            /\ ts = call.pre

\* late in the match, with main time left and a byo-yomi share above the
\* main time share
C17_Witness ==
    /\ Budget
    /\ call.arg = 240
    /\ QEq(call.res.turns_left, [n |-> BOARD_SIZ, d |-> 4])
    /\ call.pre.byo_yomi_stones_remaining = 3
    /\ call.pre.main_time_remaining = 100
    /\ QLt([n |-> 100 * 4, d |-> BOARD_SIZ], call.res.t_t)
    /\ QEq(call.res.t_t, [n |-> call.pre.byo_yomi_time_remaining, d |-> 3])
    /\ ts = call.pre

-----------------------------------------------------------------------------
(* C18: after reset_clock every remaining field equals its configured      *)
(* field and timed_out is false, the four configured fields and            *)
(* can_timeout are what they were, and a second reset_clock right after    *)
(* the first changes nothing.                                              *)
C18_Reset ==
    call.op = "reset_clock" =>
        /\ ts.main_time_remaining = ts.main_time
        /\ ts.byo_yomi_time_remaining = ts.byo_yomi_time
        /\ ts.byo_yomi_stones_remaining = ts.byo_yomi_stones
        /\ ts.byo_yomi_periods_remaining = ts.byo_yomi_periods
        /\ ~ts.timed_out
        /\ ts.main_time = call.pre.main_time
        /\ ts.byo_yomi_time = call.pre.byo_yomi_time
        /\ ts.byo_yomi_stones = call.pre.byo_yomi_stones
        /\ ts.byo_yomi_periods = call.pre.byo_yomi_periods
        /\ ts.can_timeout = call.pre.can_timeout
        /\ reset_clock(ts) = ts

\* a clock that had timed out in its last period, a stone of it played
C18_Witness ==
    /\ call.op = "reset_clock"
    /\ call.pre.timed_out
    /\ call.pre.main_time # 0
    /\ call.pre.main_time_remaining = 0
    /\ call.pre.byo_yomi_stones_remaining # call.pre.byo_yomi_stones
    /\ call.pre.byo_yomi_periods_remaining = 0
    /\ call.pre.byo_yomi_periods # 0
    /\ ~ts.timed_out

(* C19: whatever the structure held, set_time_system, set_sudden_death and *)
(* set_time_per_turn assign all ten fields: every remaining field equals   *)
(* its configured field and timed_out is false; set_time_system and        *)
(* set_sudden_death set can_timeout, set_sudden_death with every byo-yomi  *)
(* field 0; set_time_per_turn sets main_time 0, byo_yomi_time the time per *)
(* turn, 1 stone, 1 period and can_timeout false.                          *)
C19_Presets ==
    /\ call.op = "set_time_system" =>
        ts = [can_timeout |-> TRUE, timed_out |-> FALSE,
              main_time |-> call.arg[1],
              main_time_remaining |-> call.arg[1],
              byo_yomi_time |-> call.arg[2],
              byo_yomi_time_remaining |-> call.arg[2],
              byo_yomi_stones |-> call.arg[3],
              byo_yomi_stones_remaining |-> call.arg[3],
              byo_yomi_periods |-> call.arg[4],
              byo_yomi_periods_remaining |-> call.arg[4]]
    /\ call.op = "set_sudden_death" =>
        ts = [can_timeout |-> TRUE, timed_out |-> FALSE,
              main_time |-> call.arg, main_time_remaining |-> call.arg,
              byo_yomi_time |-> 0, byo_yomi_time_remaining |-> 0,
              byo_yomi_stones |-> 0, byo_yomi_stones_remaining |-> 0,
              byo_yomi_periods |-> 0, byo_yomi_periods_remaining |-> 0]
    /\ call.op = "set_time_per_turn" =>
        ts = [can_timeout |-> FALSE, timed_out |-> FALSE,
              main_time |-> 0, main_time_remaining |-> 0,
              byo_yomi_time |-> call.arg,
              byo_yomi_time_remaining |-> call.arg,
              byo_yomi_stones |-> 1, byo_yomi_stones_remaining |-> 1,
              byo_yomi_periods |-> 1, byo_yomi_periods_remaining |-> 1]

\* set_sudden_death on a clock that had timed out
C19_Witness ==
    /\ call.op = "set_sudden_death"
    /\ call.pre # <<>>
    /\ call.pre.timed_out
    /\ call.arg # 0
    /\ ~ts.timed_out
    /\ ts.main_time_remaining = call.arg

-----------------------------------------------------------------------------
\* the units of the format, in milliseconds, and how they are written; a
\* duration with no unit written is in milliseconds
UnitsOfTime == {1, 1000, 60000, 3600000}

Spelled(unit) ==
    IF unit = 3600000 THEN {<<"h">>}
    ELSE IF unit = 60000 THEN {<<"m">>}
    ELSE IF unit = 1000 THEN {<<"s">>}
    ELSE {<<"m", "s">>, <<>>}

\* the largest unit that divides the time exactly
LargestUnit(time) ==
    CHOOSE u \in UnitsOfTime :
        /\ time % u = 0
        /\ \A v \in UnitsOfTime : time % v = 0 => v <= u

InLargestUnit(time) ==
    {U32ToStr(time \div LargestUnit(time)) \o a : a \in Spelled(LargestUnit(time))}

Described(t, main, byo) ==
    main \o <<"+">> \o U32ToStr(t.byo_yomi_periods) \o <<"x">> \o byo
        \o <<"/">> \o U32ToStr(t.byo_yomi_stones)

(* C20 as stated: time_system_to_str writes main_time and byo_yomi_time,   *)
(* each on its own, in the largest of milliseconds, seconds, minutes and   *)
(* hours that divides it exactly, for every value, 0 and the values below  *)
(* 1000, 60000 and 3600000 included; the numbers of periods and stones are *)
(* written as plain integers.                                              *)
C20_LargestUnit ==
    out.done =>
        \E main \in InLargestUnit(out.of.main_time),
           byo \in InLargestUnit(out.of.byo_yomi_time) :
            out.s = Described(out.of, main, byo)

\* how time_system_to_str writes a time: 0 with no unit, milliseconds as ms
Written(time) ==
    IF time = 0 THEN <<"0">>
    ELSE IF LargestUnit(time) = 1 THEN U32ToStr(time) \o <<"m", "s">>
    ELSE CHOOSE s \in InLargestUnit(time) : TRUE

(* C20 amended: time_system_to_str writes main_time and byo_yomi_time,     *)
(* each on its own, in the largest of milliseconds, seconds, minutes and   *)
(* hours that divides it exactly, for every value above 0, the values      *)
(* below 1000, 60000 and 3600000 included; it writes 0 as 0 with no unit;  *)
(* the numbers of periods and stones are written as plain integers.        *)
C20_LargestUnitOrZero ==
    out.done =>
        out.s = Described(out.of, Written(out.of.main_time),
                          Written(out.of.byo_yomi_time))

\* two hours and 12 periods of 61 seconds
C20_Witness ==
    /\ out.done
    /\ out.of.main_time = 7200000
    /\ out.of.byo_yomi_time = 61000
    /\ out.s = <<"2", "h", "+", "1", "2", "x", "6", "1", "s", "/", "2">>

-----------------------------------------------------------------------------
\* an iteration of the loop in a byo-yomi period of a clock set by
\* set_time_system
Overtime ==
    /\ preset = "set_time_system"
    /\ pc = "loop"
    /\ ts.main_time_remaining = 0

\* the iteration consumes all that is left of the period time
ReachesZero == ULe(ts.byo_yomi_time_remaining, milliseconds)

(* C21: for a byo-yomi clock in overtime, every time the period time       *)
(* reaches 0 inside advance_clock exactly one period is consumed; if       *)
(* periods are left, the period time and the stones are set to their       *)
(* configured values and the rest of the elapsed time goes on being        *)
(* consumed from the new period; if none is left, timed_out is set and the *)
(* call returns at once, whatever elapsed time is left; and timed_out is   *)
(* set in no other way.                                                    *)
C21_PeriodExhaustion ==
    [][/\ Overtime /\ ReachesZero =>
           /\ ts'.byo_yomi_periods_remaining =
                  ts.byo_yomi_periods_remaining - 1
           /\ IF ts.byo_yomi_periods_remaining # 1
              THEN /\ ts'.byo_yomi_time_remaining = ts.byo_yomi_time
                   /\ ts'.byo_yomi_stones_remaining = ts.byo_yomi_stones
                   /\ ~ts'.timed_out
                   /\ milliseconds # ts.byo_yomi_time_remaining =>
                       /\ pc' = "loop"
                       /\ milliseconds' =
                              milliseconds - ts.byo_yomi_time_remaining
              ELSE /\ ts'.timed_out
                   /\ pc' = "idle"
                   /\ ts'.byo_yomi_time_remaining = 0
       /\ Overtime /\ ~ReachesZero =>
           ts'.byo_yomi_periods_remaining = ts.byo_yomi_periods_remaining
       /\ preset = "set_time_system" /\ ~ts.timed_out /\ ts'.timed_out =>
           /\ Overtime
           /\ ReachesZero
           /\ ts.byo_yomi_periods_remaining = 1]_vars

\* a call in overtime that ended one period and consumed the rest of its
\* time from the next
C21_Witness ==
    /\ Returned
    /\ preset = "set_time_system"
    /\ call.pre.main_time_remaining = 0
    /\ call.pre.byo_yomi_periods_remaining >= 2
    /\ call.pre.byo_yomi_time_remaining # 0
    /\ ULt(call.pre.byo_yomi_time_remaining, call.arg)
    /\ call.rollovers = 1
    /\ ts.byo_yomi_periods_remaining =
           call.pre.byo_yomi_periods_remaining - 1
    /\ ts.byo_yomi_time_remaining =
           ts.byo_yomi_time - (call.arg - call.pre.byo_yomi_time_remaining)
    /\ ts.byo_yomi_time_remaining # ts.byo_yomi_time
    /\ ~ts.timed_out

-----------------------------------------------------------------------------
(* C22: for a clock that can time out and has not timed out, a call of     *)
(* advance_clock with no more than main_time_remaining lowers              *)
(* main_time_remaining by exactly that much and leaves                     *)
(* byo_yomi_time_remaining, byo_yomi_stones_remaining,                     *)
(* byo_yomi_periods_remaining and timed_out as they were, also when it     *)
(* consumes the main time to the last millisecond; and no iteration that   *)
(* finds main time left changes a byo-yomi field.                          *)
C22_MainTimeFirst ==
    /\ [](Returned /\ CanAdvance(call.pre)
              /\ ULe(call.arg, call.pre.main_time_remaining) =>
            ts = [call.pre EXCEPT !.main_time_remaining = @ - call.arg])
    /\ [][pc = "loop" /\ ts.main_time_remaining # 0 =>
            /\ ts'.byo_yomi_time_remaining = ts.byo_yomi_time_remaining
            /\ ts'.byo_yomi_stones_remaining = ts.byo_yomi_stones_remaining
            /\ ts'.byo_yomi_periods_remaining = ts.byo_yomi_periods_remaining
            /\ ts'.timed_out = ts.timed_out
            /\ ts'.main_time_remaining =
                   ts.main_time_remaining
                       - MIN(ts.main_time_remaining, milliseconds)]_vars

\* a call that consumed exactly the main time left of a byo-yomi clock
C22_Witness ==
    /\ Returned
    /\ CanAdvance(call.pre)
    /\ preset = "set_time_system"
    /\ call.arg # 0
    /\ call.arg = call.pre.main_time_remaining
    /\ call.pre.byo_yomi_time # 0
    /\ ts.main_time_remaining = 0
    /\ ts.byo_yomi_stones_remaining = call.pre.byo_yomi_stones_remaining
    /\ ts.byo_yomi_time_remaining = call.pre.byo_yomi_time_remaining
    /\ ~ts.timed_out

-----------------------------------------------------------------------------
(* C23: for a clock set by set_time_system or set_sudden_death that has    *)
(* not timed out, and any number of turns played, advance_clock called     *)
(* with exactly the time calc_time_to_play returns for that clock does not *)
(* set timed_out; in overtime with one stone left in the last period the   *)
(* time returned is below byo_yomi_time_remaining.                         *)
C23_BudgetNeverTimesOut ==
    /\ Returned /\ CanAdvance(call.pre) => ~ts.timed_out
    /\ /\ Budget
       /\ CanAdvance(call.pre)
       /\ call.pre.main_time_remaining = 0
       /\ call.pre.byo_yomi_stones_remaining = 1
       /\ call.pre.byo_yomi_periods_remaining = 1
       /\ call.pre.byo_yomi_time_remaining # 0
       => call.res.ret < call.pre.byo_yomi_time_remaining

-----------------------------------------------------------------------------
(* C24: in every state a clock reaches through the presets, advance_clock  *)
(* and reset_clock, timed_out implies main_time_remaining = 0,             *)
(* byo_yomi_time_remaining = 0 and byo_yomi_periods_remaining = 0.         *)
C24_TimedOutShape ==
    ts.timed_out =>
        /\ ts.main_time_remaining = 0
        /\ ts.byo_yomi_time_remaining = 0
        /\ ts.byo_yomi_periods_remaining = 0

\* a byo-yomi clock with main time and period time configured, timed out
C24_Witness ==
    /\ ts.timed_out
    /\ pc = "idle"
    /\ preset = "set_time_system"
    /\ ts.main_time # 0
    /\ ts.byo_yomi_time # 0
    /\ ts.byo_yomi_periods >= 2
    /\ ts.main_time_remaining = 0
    /\ ts.byo_yomi_time_remaining = 0
    /\ ts.byo_yomi_periods_remaining = 0

-----------------------------------------------------------------------------
(* C25: after str_to_time_system returned true for a destination that held *)
(* a clock, every remaining field is at most its configured field, as the  *)
(* data model asks, with no reset_clock in between: the remaining fields   *)
(* of the clock that was there are not left next to the configured fields  *)
(* that were read.                                                         *)
C25_ConsistentAfterParse ==
    parse.ret = "true" =>
        /\ ULe(ts.main_time_remaining, ts.main_time)
        /\ ULe(ts.byo_yomi_time_remaining, ts.byo_yomi_time)
        /\ ULe(ts.byo_yomi_stones_remaining, ts.byo_yomi_stones)
        /\ ULe(ts.byo_yomi_periods_remaining, ts.byo_yomi_periods)

-----------------------------------------------------------------------------
(* C26: in the main loop of ob_learn every mcts_start is followed by       *)
(* tt_clean_all before the next mcts_start, whether the best play is on    *)
(* the board or a pass, and mcts_start is called only for a state with at  *)
(* least minimum_samples samples that the opening book does not hold.      *)
C26_CacheDiscipline ==
    /\ learn.pc \in {"for", "mcts_start", "write", "done", "exit"} =>
        learn.tt = {}
    /\ learn.pc = "select_play" =>
        /\ learn.clean
        /\ ~learn.hit
        /\ learn.idx <= Len(learn.ssts)
        /\ learn.ssts[learn.idx] >= learn.minimum_samples
    /\ \A i \in 1 .. Len(learn.log) :
        /\ learn.log[i] \in {"move", "pass"} =>
            learn.ssts[i] >= learn.minimum_samples
        /\ learn.log[i] = "few" <=> learn.ssts[i] < learn.minimum_samples

\* a search that ended in a pass, a state with too few samples, and the next
\* search begun on an empty table and left states in it
C26_Witness ==
    /\ learn.pc = "select_play"
    /\ learn.log = <<"pass", "few">>
    /\ learn.idx = 3
    /\ learn.clean
    /\ learn.tt # {}

=============================================================================
